---- MODULE Spec2Model ----
(***************************************************************************)
(* Model of the recording session manager of discord-voice-scribe:         *)
(* bot.py (VoiceRecordingBot), commands.py (/join, /stop, the              *)
(* capture-finished callback) and database.py (the recordings table).      *)
(*                                                                         *)
(* The program runs on one asyncio event loop: a coroutine runs without    *)
(* interruption from one `await` to the next, and at every `await` any     *)
(* other ready coroutine may run.  Each action below is one such           *)
(* uninterrupted segment of one coroutine.  A command whose handler        *)
(* returns before it touches any state (a /join from a user who is in no   *)
(* voice channel, a voice-state event in a guild that is not recording)    *)
(* is a stuttering step.                                                   *)
(***************************************************************************)
EXTENDS Integers, Sequences, FiniteSets, Bags, TLC

\* ---------------------------------------------------------------- bounds
MaxTasks == 2               \* coroutines suspended at the same time

Guilds == {1, 2}            \* guild ids
Users == {1, 2, 3}          \* user ids
Initiators == {1}           \* users who run /join
Moderators == {2}           \* users holding guild_permissions.manage_messages
TrackChoices == {{}, {1}}   \* users whose capture file is non-empty
RecordingIds == {1, 2}      \* ids the AUTOINCREMENT column hands out in a run
ParticipantLists == {1, 2}  \* member lists of a recorded channel; 1 is the one at /join

Tokens == {1, 2}            \* values secrets.token_urlsafe(32) can return

NULL == 0                   \* SQL NULL, Python None, a missing dict key

VARIABLES
    active,       \* bot.active_recordings: guild -> session (NULL: no key)
    order,        \* insertion order of the keys of bot.active_recordings
    sess,         \* the recording_info dicts created so far, with sink and voice client
    rows,         \* table recordings; the index is the AUTOINCREMENT id
    lastRowid,    \* last_insert_rowid() of the one shared connection
    gvc,          \* guild -> a voice client is registered for the guild
    tasks,        \* bag of the suspended coroutines (commands, event handlers)
    last,         \* the coroutine that returned in the latest step, if one did
    pipeRuns,     \* recording id -> number of audio_processor.process_recording calls
    finishWrites, \* recording id -> number of db.finish_recording calls
    failNotes,    \* recording ids for which the "Recording Error" embed was sent
    mix,          \* one run of AudioProcessor.process_recording
    sink,         \* one RecordingSink: its capture files and its callback
    active_tokens, \* FileServer.active_tokens: token -> info
    utcnow,       \* what datetime.utcnow() returns
    issued,       \* the values secrets.token_urlsafe has returned so far
    response,     \* the reply to the latest GET /download/{token}
    served,       \* token -> number of requests answered with its file
    trace,        \* the latest operation on the file server and what it did
    download_tokens \* table download_tokens, as a set of rows

vars == <<active, order, sess, rows, lastRowid, gvc, tasks, last, pipeRuns,
          finishWrites, failNotes, mix, sink, active_tokens, utcnow, issued,
          response, served, trace, download_tokens>>

\* the variables of the file server
serverVars == <<active_tokens, utcnow, issued, response, served, trace>>

\* the variables of the components other than the session manager
others == <<mix, sink, serverVars, download_tokens>>

\* the variables of the session manager
sessionVars == <<active, order, sess, rows, lastRowid, gvc, tasks, last,
                 pipeRuns, finishWrites, failNotes>>

\* ------------------------------------------------------------- helpers
SeqRemove(seq, x) == SelectSeq(seq, LAMBDA y : y # x)

Min(S) == CHOOSE k \in S : \A j \in S : k <= j

\* the mutation of DictDel that forgets the `finally` of stop_recording
DictKeep(g) == UNCHANGED <<active, order>>

\* `del self.active_recordings[guild_id]` guarded by `if guild_id in ...`
DictDel(g) ==
    /\ active' = [active EXCEPT ![g] = NULL]
    /\ order' = SeqRemove(order, g)

\* `bot.active_recordings[guild_id] = {...}`: a new key goes last, an
\* existing key keeps its place.
DictSet(g, s) ==
    /\ active' = [active EXCEPT ![g] = s]
    /\ order' = IF active[g] # NULL THEN order ELSE Append(order, g)

\* sink.temp_dir is per sink, so a capture file is named by (sink, user)
SinkFiles(s, users) == {<<s, u>> : u \in users}

\* a coroutine: what it handles, where it is suspended, and its locals
NewTask(kind, g, u) ==
    [kind |-> kind, g |-> g, u |-> u, pc |-> "new", s |-> NULL,
     rid |-> NULL, row |-> NULL, files |-> {}, parts |-> NULL,
     todo |-> <<>>, token |-> NULL, out |-> "none"]

\* the coroutine returns with outcome `out`.  For close() the return is that
\* of the stop_recording it awaited: its loop goes on to the next guild of its
\* snapshot, and after the last one to the rest of the shutdown.
Done(t, out) ==
    IF t.kind = "close" THEN
        [t EXCEPT !.pc = IF t.todo = <<>> THEN "cl_tail" ELSE "cl_next",
                  !.s = NULL, !.rid = NULL, !.files = {}, !.parts = NULL,
                  !.out = "none"]
    ELSE [t EXCEPT !.pc = "done", !.out = out]

NoOp ==
    [op |-> "none", g |-> NULL, s |-> NULL, rid |-> NULL, cap |-> {},
     out |-> "none"]

\* what a returning coroutine leaves behind: its kind, its guild, the session
\* and recording id it worked on, the tracks that session's capture ended
\* with, and its outcome
Returned(t) ==
    [op |-> t.kind, g |-> t.g, s |-> t.s, rid |-> t.rid,
     cap |-> IF t.s \in 1..Len(sess) THEN sess[t.s].captured ELSE {},
     out |-> t.out]

\* the event loop runs until close() has returned
Running == last.op # "close"

\* a new coroutine runs up to its first suspension, or returns at once
Spawn(t) ==
    /\ Running
    /\ IF t.pc = "done" THEN
          /\ tasks' = tasks
          /\ last' = Returned(t)
       ELSE
          /\ BagCardinality(tasks) < MaxTasks
          /\ tasks' = tasks (+) SetToBag({t})
          /\ last' = NoOp

\* the mutation of Resume for a pipeline that waits for its subprocess with a
\* blocking call: while a pipeline waits, no other coroutine resumes
ResumeBlocking(t, t2) ==
    /\ Running
    /\ \A x \in BagToSet(tasks) : x.pc = "st_pipe" => x = t
    /\ IF t2.pc = "done" THEN
          /\ tasks' = tasks (-) SetToBag({t})
          /\ last' = Returned(t2)
       ELSE
          /\ tasks' = (tasks (-) SetToBag({t})) (+) SetToBag({t2})
          /\ last' = NoOp

\* the suspended coroutine t runs up to its next suspension, or returns
Resume(t, t2) ==
    /\ Running
    /\ IF t2.pc = "done" THEN
          /\ tasks' = tasks (-) SetToBag({t})
          /\ last' = Returned(t2)
       ELSE
          /\ tasks' = (tasks (-) SetToBag({t})) (+) SetToBag({t2})
          /\ last' = NoOp

\* ------------------------------------------------------------ database
\* INSERT INTO recordings (...) VALUES (..., 'recording')
InsertRow(g, u) ==
    [guild |-> g, started_by |-> u, status |-> "recording",
     file_path |-> NULL, file_size |-> NULL, duration |-> NULL,
     participants |-> NULL]

\* the mutation of FinishRow that writes the fields and leaves the status
FinishRowNoStatus(r, path, parts) ==
    [r EXCEPT !.file_path = path, !.file_size = 1, !.duration = 1,
              !.participants = parts]

\* UPDATE recordings SET file_path, file_size, participants, duration,
\* status='completed' WHERE id = ?
FinishRow(r, path, parts) ==
    [r EXCEPT !.status = "completed", !.file_path = path,
              !.file_size = 1, !.duration = 1, !.participants = parts]

\* ------------------------------------------------------------ sessions
\* the dict stored at commands.py:121 together with the objects it refers to:
\* the sink (captured, cb) and the voice client (vcRec)
NewSession(g, u, rid, row) ==
    [guild |-> g, rid |-> rid, started_by |-> u,
     row |-> row,                          \* the row this /join inserted
     parts |-> 1,                          \* key 'participants'
     hasFiles |-> FALSE, files |-> {},     \* key 'user_audio_files'
     vcRec |-> TRUE,                       \* voice_client.recording
     captured |-> {},                      \* users with a non-empty capture file
     cb |-> "none"]                        \* the capture-finished callback

\* a recording_info dict that nothing refers to any more
Freed ==
    [guild |-> NULL, rid |-> NULL, started_by |-> NULL, row |-> NULL,
     parts |-> NULL, hasFiles |-> FALSE, files |-> {}, vcRec |-> FALSE, captured |-> {},
     cb |-> "done"]

\* Python frees a session once bot.active_recordings, every coroutine's
\* local recording_info and the pending callback's sink have let go of it
Collect(ss, act, tk) ==
    [s \in 1..Len(ss) |->
        IF \/ \E g \in Guilds : act[g] = s
           \/ \E t \in BagToSet(tk) : t.s = s
           \/ ss[s].cb = "pending"
        THEN ss[s] ELSE Freed]

\* the mutation of AlreadyRecording that lets every /join through
NeverRecording(g) == FALSE

\* `if guild_id in bot.active_recordings` of /join
AlreadyRecording(g) == active[g] # NULL

\* the mutation of CanStop that lets every user stop
CanStopAnyone(u, info) == u = info.started_by \/ u \in Users

\* the permission test of /stop
CanStop(u, info) == u = info.started_by \/ u \in Moderators

\* no run of the pipeline is looked at
NoRun ==
    [pc |-> "idle", tracks |-> <<>>, i |-> NULL, max_duration |-> 0,
     counted |-> {}, norm_calls |-> {}, sync_calls |-> {}, out |-> "none",
     parent |-> TRUE,      \* the directory self.temp_dir exists
     dir |-> FALSE,        \* the directory recording_<id> exists
     rm |-> <<>>,          \* the rmtree calls of the run: "success", "failure"
     norm_done |-> {},     \* normalized_files
     sync_done |-> {},     \* synchronized_files
     mix_calls |-> {},     \* the commands _mix_audio_files has launched
     output |-> "none",    \* recording_<id>.<format>: "none", "partial", "whole"
     absorbed |-> {}]      \* failed invocations after which the run went on

\* the session manager after VoiceRecordingBot.__init__ and setup_hook
Start ==
    /\ active = [g \in Guilds |-> NULL]
    /\ order = <<>>
    /\ sess = <<>>
    /\ rows = <<>>
    /\ lastRowid = NULL
    /\ gvc = [g \in Guilds |-> FALSE]
    /\ tasks = EmptyBag
    /\ last = NoOp
    /\ pipeRuns = [i \in RecordingIds |-> 0]
    /\ finishWrites = [i \in RecordingIds |-> 0]
    /\ failNotes = {}

\* no sink is looked at
NoSink ==
    [pc |-> "idle", files |-> [u \in {1, 2, 3} |-> "none"], order |-> <<>>,
     stored |-> [present |-> FALSE, user_audio_files |-> {}], out |-> "none"]

\* no request has been answered
NoResponse == [status |-> NULL, detail |-> "none", path |-> NULL]

\* no operation on the file server has run
NoTrace == [op |-> "none", token |-> NULL, evicted |-> FALSE, count |-> NULL]

\* FileServer.__init__ and DatabaseManager.initialize: the token table and
\* the table download_tokens are empty
ServerStart ==
    /\ active_tokens = [k \in {} |-> NULL]
    /\ utcnow = 0
    /\ issued = {}
    /\ response = NoResponse
    /\ served = [k \in Tokens |-> 0]
    /\ trace = NoTrace
    /\ download_tokens = {}

\* the state after VoiceRecordingBot.__init__ and setup_hook
Init == Start /\ mix = NoRun /\ sink = NoSink /\ ServerStart

\* -------------------------------------------------------------- /join
\* join_command, for a user who is in a voice channel, up to its first await
\* inside db.start_recording: the AlreadyRecording test and the INSERT.  The
\* local `row` is the id the INSERT gave the new row.
JoinCheck(g, u) ==
    /\ LET t == NewTask("join", g, u) IN
       IF AlreadyRecording(g) THEN
           /\ Spawn(Done(t, "AlreadyRecording"))
           /\ UNCHANGED <<rows, lastRowid>>
       ELSE
           /\ Len(rows) + 1 \in RecordingIds
           /\ rows' = Append(rows, InsertRow(g, u))
           /\ lastRowid' = Len(rows) + 1
           /\ Spawn([t EXCEPT !.pc = "j_rowid", !.row = Len(rows) + 1])
    /\ UNCHANGED <<others, active, order, sess, gvc, pipeRuns, finishWrites, failNotes>>

\* db.start_recording after the commit: SELECT last_insert_rowid() on the
\* shared connection, then the call of channel.connect(), which raises
\* ClientException when the guild already has a voice client.
JoinRowid(t) ==
    /\ t.pc = "j_rowid"
    /\ LET t2 == [t EXCEPT !.rid = lastRowid] IN
       IF gvc[t.g] THEN
           /\ Resume(t, Done(t2, "Failed"))
           /\ UNCHANGED gvc
       ELSE
           /\ Resume(t, [t2 EXCEPT !.pc = "j_connect"])
           /\ gvc' = [gvc EXCEPT ![t.g] = TRUE]
    /\ UNCHANGED <<others, active, order, sess, rows, lastRowid, pipeRuns,
                   finishWrites, failNotes>>

\* channel.connect() returns or raises; on return the sink is created,
\* capture starts and the session is stored in bot.active_recordings.
JoinConnect(t, ok) ==
    /\ t.pc = "j_connect"
    /\ LET s == Len(sess) + 1 IN
       IF ok THEN
           /\ sess' = Append(sess, NewSession(t.g, t.u, t.rid, t.row))
           /\ DictSet(t.g, s)
           /\ Resume(t, Done([t EXCEPT !.s = s], "Started"))
           /\ UNCHANGED gvc
       ELSE
           /\ gvc' = [gvc EXCEPT ![t.g] = FALSE]
           /\ Resume(t, Done(t, "Failed"))
           /\ UNCHANGED <<active, order, sess>>
    /\ UNCHANGED <<others, rows, lastRowid, pipeRuns, finishWrites, failNotes>>

\* ------------------------------------------------------ stop_recording
\* VoiceRecordingBot.stop_recording up to `await voice_client.disconnect()`,
\* as the next state of the coroutine t.  voice_client.stop_recording() ends
\* the capture and schedules the callback; it raises RecordingException on a
\* client that is not recording, which the `except` logs and the `finally`
\* follows.
StopRecordingEnter(t) ==
    LET s == active[t.g] IN
    IF s = NULL THEN Done(t, "NotLive")
    ELSE IF ~sess[s].vcRec
    THEN Done([t EXCEPT !.s = s, !.rid = sess[s].rid], "Raised")
    ELSE [t EXCEPT !.pc = "st_disc", !.s = s, !.rid = sess[s].rid]

\* the effect of that segment on the session table and on the session; cap
\* is the set of users whose capture file is non-empty when the capture ends
StopRecordingEffect(t, cap) ==
    LET s == active[t.g] IN
    IF s = NULL THEN
        UNCHANGED <<active, order, sess>>
    ELSE IF ~sess[s].vcRec THEN
        /\ DictDel(t.g)
        /\ sess' = Collect(sess, active', tasks')
    ELSE
        /\ sess' = [sess EXCEPT ![s].vcRec = FALSE, ![s].captured = cap,
                                ![s].cb = "pending"]
        /\ UNCHANGED <<active, order>>

\* the mutation of StopCheck that leaves the "no active recording" test to
\* stop_recording
StopCheckUntested(g, u) ==
    /\ LET t == NewTask("stop", g, u) IN
       IF active[g] # NULL /\ ~CanStop(u, sess[active[g]]) THEN
           Spawn(Done(t, "Forbidden"))
       ELSE
           Spawn([t EXCEPT !.pc = "sc_sent", !.u = NULL])
    /\ UNCHANGED <<others, active, order, sess, rows, lastRowid, gvc, pipeRuns,
                   finishWrites, failNotes>>

\* stop_command up to `await interaction.followup.send(embed=embed)`
StopCheck(g, u) ==
    /\ LET t == NewTask("stop", g, u) IN
       IF active[g] = NULL THEN
           Spawn(Done(t, "NotRecording"))
       ELSE IF ~CanStop(u, sess[active[g]]) THEN
           Spawn(Done(t, "Forbidden"))
       ELSE
           Spawn([t EXCEPT !.pc = "sc_sent", !.u = NULL])
    /\ UNCHANGED <<others, active, order, sess, rows, lastRowid, gvc, pipeRuns,
                   finishWrites, failNotes>>

\* stop_command: `await bot.stop_recording(guild_id)`
StopCall(t, cap) ==
    /\ t.pc = "sc_sent"
    /\ Resume(t, StopRecordingEnter(t))
    /\ StopRecordingEffect(t, cap)
    /\ UNCHANGED <<others, rows, lastRowid, gvc, pipeRuns, finishWrites, failNotes>>

\* on_voice_state_update for the bot's own member with after.channel None,
\* in a guild that is recording
ForceStop(g, cap) ==
    /\ active[g] # NULL
    /\ LET t == NewTask("force", g, NULL) IN
       /\ Spawn(StopRecordingEnter(t))
       /\ StopRecordingEffect(t, cap)
    /\ UNCHANGED <<others, rows, lastRowid, gvc, pipeRuns, finishWrites, failNotes>>

\* voice_client.disconnect() returns or raises.  On return process_recording
\* reads recording_info.get('user_audio_files', {}) and, when there are files,
\* recording_info.get('participants', []), and either returns (no
\* files) or calls the mixdown pipeline.  A return of stop_recording goes
\* through its `finally`.
StopDisconnected(t, ok) ==
    /\ t.pc = "st_disc"
    /\ LET info == sess[t.s] IN
       /\ gvc' = [gvc EXCEPT ![t.g] = FALSE]
       /\ IF ~ok THEN
              /\ DictDel(t.g)
              /\ Resume(t, Done(t, "Raised"))
              /\ UNCHANGED pipeRuns
          ELSE IF ~info.hasFiles \/ info.files = {} THEN
              /\ DictDel(t.g)
              /\ Resume(t, Done(t, "NoTracks"))
              /\ UNCHANGED pipeRuns
          ELSE
              /\ pipeRuns' = [pipeRuns EXCEPT ![info.rid] = @ + 1]
              /\ Resume(t, [t EXCEPT !.pc = "st_pipe", !.files = info.files,
                                   !.parts = info.parts])
              /\ UNCHANGED <<active, order>>
    /\ sess' = Collect(sess, active', tasks')
    /\ UNCHANGED <<others, rows, lastRowid, finishWrites, failNotes>>

\* audio_processor.process_recording returns or raises.  On return
\* db.finish_recording runs; on an exception the error embed is sent.
StopPipeDone(t, ok) ==
    /\ t.pc = "st_pipe"
    /\ IF ok THEN
           /\ rows' = [rows EXCEPT ![t.rid] = FinishRow(@, t.rid, t.parts)]
           /\ finishWrites' = [finishWrites EXCEPT ![t.rid] = @ + 1]
           /\ Resume(t, [t EXCEPT !.pc = "st_notify", !.out = "Completed"])
           /\ UNCHANGED failNotes
       ELSE
           /\ failNotes' = failNotes \cup {t.rid}
           /\ Resume(t, [t EXCEPT !.pc = "st_notify", !.out = "PipeFailed"])
           /\ UNCHANGED <<rows, finishWrites>>
    /\ UNCHANGED <<others, active, order, sess, lastRowid, gvc, pipeRuns>>

\* `await channel.send(embed=embed)` returns or raises; a raise of the
\* "Recording Complete" send is caught by the handler that sends the error
\* embed.  Then process_recording returns and the `finally` runs.
StopNotified(t, ok) ==
    /\ t.pc = "st_notify"
    /\ DictDel(t.g)
    /\ Resume(t, Done(t, t.out))
    /\ failNotes' = IF ~ok /\ t.out = "Completed"
                    THEN failNotes \cup {t.rid} ELSE failNotes
    /\ sess' = Collect(sess, active', tasks')
    /\ UNCHANGED <<others, rows, lastRowid, gvc, pipeRuns, finishWrites>>

\* recording_finished(sink, channel, recording_id): sink.cleanup() returns the
\* non-empty capture files, and the first entry of bot.active_recordings whose
\* recording_id matches gets them.
Callback(s) ==
    /\ Running
    /\ s \in 1..Len(sess)
    /\ sess[s].cb = "pending"
    /\ LET files == SinkFiles(s, sess[s].captured)
           hits == {k \in 1..Len(order) : sess[active[order[k]]].rid = sess[s].rid}
       IN
       IF hits = {} THEN
           sess' = Collect([sess EXCEPT ![s].cb = "done"], active, tasks)
       ELSE
           LET tgt == active[order[Min(hits)]] IN
           sess' = Collect([sess EXCEPT ![s].cb = "done", ![tgt].hasFiles = TRUE,
                                        ![tgt].files = files], active, tasks)
    /\ last' = NoOp
    /\ UNCHANGED <<others, active, order, rows, lastRowid, gvc, tasks, pipeRuns,
                   finishWrites, failNotes>>

Next ==
    \/ \E g \in Guilds, u \in Initiators : JoinCheck(g, u)
    \/ \E t \in BagToSet(tasks) : JoinRowid(t)
    \/ \E t \in BagToSet(tasks), ok \in BOOLEAN : JoinConnect(t, ok)
    \/ \E g \in Guilds, u \in Users : StopCheck(g, u)
    \/ \E t \in BagToSet(tasks), cap \in TrackChoices : StopCall(t, cap)
    \/ \E g \in Guilds, cap \in TrackChoices : ForceStop(g, cap)
    \/ \E t \in BagToSet(tasks), ok \in BOOLEAN : StopDisconnected(t, ok)
    \/ \E t \in BagToSet(tasks), ok \in BOOLEAN : StopPipeDone(t, ok)
    \/ \E t \in BagToSet(tasks), ok \in BOOLEAN : StopNotified(t, ok)
    \/ \E s \in RecordingIds : Callback(s)

Spec == Init /\ [][Next]_vars

\* ------------------------------------------------- membership events
\* on_voice_state_update for a member who joins or leaves the recorded
\* channel of a guild that has an entry in bot.active_recordings, and
\* update_recording_participants, which has no await: the entry's
\* participant list becomes the channel's current member list p.
UpdateParticipants(g, p) ==
    /\ Running
    /\ active[g] # NULL
    /\ sess' = [sess EXCEPT ![active[g]].parts = p]
    /\ last' = NoOp
    /\ UNCHANGED <<others, active, order, rows, lastRowid, gvc, tasks, pipeRuns,
                   finishWrites, failNotes>>

NextP ==
    \/ Next
    \/ \E g \in Guilds, p \in ParticipantLists : UpdateParticipants(g, p)

\* the session manager with membership events
SpecP == Init /\ [][NextP]_vars

\* ------------------------------------------------------------ shutdown
Closing == \E t \in BagToSet(tasks) : t.kind = "close"

\* close() has returned
Closed == ~Running

\* close() up to its first await: the snapshot list(active_recordings.keys())
\* and, when it is not empty, stop_recording for its first guild.
CloseBegin(cap) ==
    /\ ~Closing
    /\ LET t == [NewTask("close", NULL, NULL) EXCEPT !.todo = order] IN
       IF order = <<>> THEN
           /\ Spawn([t EXCEPT !.pc = "cl_tail"])
           /\ UNCHANGED <<active, order, sess>>
       ELSE
           LET t1 == [t EXCEPT !.g = Head(order), !.todo = Tail(order)] IN
           /\ Spawn(StopRecordingEnter(t1))
           /\ StopRecordingEffect(t1, cap)
    /\ UNCHANGED <<others, rows, lastRowid, gvc, pipeRuns, finishWrites, failNotes>>

\* the loop of close(): stop_recording for the next guild of the snapshot
CloseNext(t, cap) ==
    /\ t.pc = "cl_next"
    /\ LET t1 == [t EXCEPT !.g = Head(t.todo), !.todo = Tail(t.todo)] IN
       /\ Resume(t, StopRecordingEnter(t1))
       /\ StopRecordingEffect(t1, cap)
    /\ UNCHANGED <<others, rows, lastRowid, gvc, pipeRuns, finishWrites, failNotes>>

\* the rest of close(): cleanup_task.cancel(), file_server.stop(),
\* db.close(), super().close()
CloseFinish(t) ==
    /\ t.pc = "cl_tail"
    /\ Resume(t, [t EXCEPT !.pc = "done", !.out = "Closed"])
    /\ UNCHANGED <<others, active, order, sess, rows, lastRowid, gvc, pipeRuns,
                   finishWrites, failNotes>>

NextC ==
    \/ Next
    \/ \E cap \in TrackChoices : CloseBegin(cap)
    \/ \E t \in BagToSet(tasks), cap \in TrackChoices : CloseNext(t, cap)
    \/ \E t \in BagToSet(tasks) : CloseFinish(t)

\* the steps of close() that the event loop and the network's timeouts make
\* happen; the return of the mixdown pipeline is not among them, because the
\* pipeline waits for its subprocesses without a time limit
CloseStep ==
    \E t \in BagToSet(tasks) :
        /\ t.kind = "close"
        /\ \/ \E cap \in TrackChoices : CloseNext(t, cap)
           \/ \E ok \in BOOLEAN : StopDisconnected(t, ok)
           \/ \E ok \in BOOLEAN : StopNotified(t, ok)
           \/ CloseFinish(t)

\* the session manager with shutdown
SpecC == Init /\ [][NextC]_vars /\ WF_vars(CloseStep)

\* ---------------------------------------------------- mixdown pipeline
\* AudioProcessor.process_recording(user_audio_files, recording_id,
\* participants), looked at on its own: one run over a track list.
MaxTracks == 3              \* capture files handed to one run
Durations == {1, 2, 3}      \* what ffprobe reports for a file, in seconds

\* a capture file: whether it is on disk, whether ffprobe succeeds on it, and
\* its duration
Tracks == [exists : BOOLEAN, probe : BOOLEAN, dur : Durations]

RECURSIVE TrackLists(_)
TrackLists(n) ==
    IF n = 0 THEN {<<>>}
    ELSE TrackLists(n - 1) \cup
         {Append(l, tr) : l \in {x \in TrackLists(n - 1) : Len(x) = n - 1},
                          tr \in Tracks}

\* _get_audio_duration: the duration ffprobe reports, and 0.0 when ffprobe
\* exits non-zero or anything raises
GetAudioDuration(tr) == IF tr.probe THEN tr.dur ELSE 0

\* _normalize_audio_file: asyncio.create_subprocess_exec is called with the
\* keyword timeout=60, which it hands on to subprocess.Popen; Popen takes no
\* such keyword and raises TypeError before a process is started.  None of
\* the function's handlers (asyncio.TimeoutError, FileNotFoundError) catches
\* it.
NormalizeAudioFile(tr) == "TypeError"

\* the next file of the loop at or after position k that os.path.exists
\* finds, NULL when there is none
NextExisting(tracks, k) ==
    LET found == {j \in k..Len(tracks) : tracks[j].exists} IN
    IF found = {} THEN NULL ELSE Min(found)

\* the mutation of Fail that leaves the directory behind
FailKeepDir(m, out) == [m EXCEPT !.pc = "done", !.i = NULL, !.out = out]

\* the handler at lines 88-93: the directory is removed and the exception
\* goes on to the caller
Fail(m, out) ==
    [m EXCEPT !.pc = "done", !.i = NULL, !.out = out, !.dir = FALSE,
              !.rm = Append(@, "failure")]

\* the mutation of MixCommand that always builds the filter graph
MixCommandAlwaysGraph(n) == "amix"

\* the command _mix_audio_files builds for n input files: the plain transcode
\* of the one file, or the amix filter graph over all of them
MixCommand(n) == IF n = 1 THEN "transcode" ELSE "amix"

\* the next normalized file at or after position k, NULL when there is none
NextNormalized(m, k) ==
    LET found == {j \in m.norm_done : j >= k} IN
    IF found = {} THEN NULL ELSE Min(found)

\* the loop at lines 70-73 from position k up to its next await, the probe of
\* the next normalized file; after the last one _mix_audio_files builds its
\* command and launches it
SyncFrom(m, k) ==
    LET j == NextNormalized(m, k) IN
    IF j # NULL THEN [m EXCEPT !.pc = "sync_probe", !.i = j]
    ELSE [m EXCEPT !.pc = "mix", !.i = NULL,
                   !.mix_calls = @ \cup {MixCommand(Cardinality(m.sync_done))}]

\* the mutation of LoopFrom that synchronizes as soon as one file is normalized
LoopFromEager(m, k) ==
    IF m.norm_done # {} THEN SyncFrom(m, 1)
    ELSE LET j == NextExisting(m.tracks, k) IN
         IF j # NULL THEN [m EXCEPT !.pc = "probe", !.i = j]
         ELSE Fail(m, "NoValidTracks")

\* the loop at lines 49-66 from position k up to its next await, the probe of
\* the next file that exists; without such a file it ends, and with no
\* normalized file the run raises ValueError("No valid audio files found"),
\* which the handler at line 88 re-raises after removing the directory
LoopFrom(m, k) ==
    LET j == NextExisting(m.tracks, k) IN
    IF j # NULL THEN [m EXCEPT !.pc = "probe", !.i = j]
    ELSE IF m.norm_done = {} THEN Fail(m, "NoValidTracks")
    ELSE SyncFrom(m, 1)

\* a run starts: the directory is made and the loop runs up to its first
\* await.  mkdir(exist_ok=True) makes no parent: without self.temp_dir it
\* raises FileNotFoundError, which goes to the handler at line 88.
MixBegin ==
    /\ mix.pc = "new"
    /\ mix' = IF mix.parent THEN LoopFrom([mix EXCEPT !.dir = TRUE], 1)
              ELSE Fail(mix, "FileNotFoundError")
    /\ UNCHANGED <<sessionVars, sink, serverVars, download_tokens>>

\* the probe of file i has returned: its result goes into max_duration, and a
\* failed probe has been turned into 0.0
Probed(m) ==
    LET d == GetAudioDuration(m.tracks[m.i]) IN
    [m EXCEPT !.max_duration = IF d > @ THEN d ELSE @,
              !.counted = @ \cup {m.i},
              !.norm_calls = @ \cup {m.i},
              !.absorbed = IF m.tracks[m.i].probe THEN @ ELSE @ \cup {"probe"}]

\* the probe of file i returns and the file is handed to
\* _normalize_audio_file, whose exception ends the run
MixProbed ==
    /\ mix.pc = "probe"
    /\ mix' = IF NormalizeAudioFile(mix.tracks[mix.i]) = "ok"
              THEN LoopFrom([Probed(mix) EXCEPT !.norm_done = @ \cup {mix.i}],
                            mix.i + 1)
              ELSE Fail(Probed(mix), NormalizeAudioFile(mix.tracks[mix.i]))
    /\ UNCHANGED <<sessionVars, sink, serverVars, download_tokens>>

\* a run of the pipeline over a non-empty dict of capture files
InitM ==
    /\ Start
    /\ sink = NoSink
    /\ ServerStart
    /\ \E l \in TrackLists(MaxTracks) \ {<<>>} : mix = [NoRun EXCEPT !.pc = "new", !.tracks = l]

NextM == MixBegin \/ MixProbed

SpecM == InitM /\ [][NextM]_vars

\* ------------------------------------------- the stages of the pipeline
\* The stages of process_recording with the launch of a subprocess as a
\* collaborator that hands back a process or raises.  SpecM above is the
\* behaviour in which the launch of line 135 raises TypeError every time.

\* what the launch of ffmpeg at line 135 does: a process is started, the
\* executable is not found (FileNotFoundError, turned into RuntimeError at
\* line 154), or TypeError
NormalizeLaunches == {"started", "ToolMissing", "TypeError"}

\* what the launches at lines 177 and 221 and their ffmpeg do: exit 0, exit
\* non-zero (RuntimeError), executable not found (FileNotFoundError)
Exits == {"ok", "ProcessFailed", "ToolMissing"}

\* what a failing ffmpeg leaves at its output path
Leftovers == {"none", "partial"}

\* the probe of file i returns and ffmpeg is launched on the file
NormalizeLaunched(o) ==
    /\ mix.pc = "probe"
    /\ mix' = IF o = "started" THEN [Probed(mix) EXCEPT !.pc = "normalize"]
              ELSE Fail(Probed(mix), o)
    /\ UNCHANGED <<sessionVars, sink, serverVars, download_tokens>>

\* communicate() of the normalization returns: exit 0 puts the file into
\* normalized_files and the loop goes on, another exit code raises
\* RuntimeError
NormalizeExited(ok) ==
    /\ mix.pc = "normalize"
    /\ ok => mix.dir             \* ffmpeg writes into recording_<id>
    /\ mix' = IF ok THEN LoopFrom([mix EXCEPT !.norm_done = @ \cup {mix.i}],
                                  mix.i + 1)
              ELSE Fail(mix, "ProcessFailed")
    /\ UNCHANGED <<sessionVars, sink, serverVars, download_tokens>>

\* _synchronize_audio_file: the probe of the normalized file i returns (0.0
\* when it failed).  A file at least as long as the target is copied; for a
\* shorter one ffmpeg is launched to append the missing silence, and a launch
\* that does not find the executable raises FileNotFoundError.
SyncProbed(okp, found) ==
    /\ mix.pc = "sync_probe"
    /\ okp => mix.dir            \* ffprobe reads from recording_<id>
    /\ LET cur == IF okp THEN mix.tracks[mix.i].dur ELSE 0
           tgt == mix.max_duration
           m == [mix EXCEPT !.absorbed = IF okp THEN @ ELSE @ \cup {"probe"}]
       IN
       mix' = IF cur >= tgt /\ ~mix.dir THEN Fail(m, "FileNotFoundError")
              ELSE IF cur >= tgt THEN
                  SyncFrom([m EXCEPT
                      !.sync_calls = @ \cup {[track |-> mix.i, target |-> tgt,
                                              silence |-> 0]},
                      !.sync_done = @ \cup {mix.i}], mix.i + 1)
              ELSE IF ~found THEN Fail(m, "ToolMissing")
              ELSE [m EXCEPT !.pc = "pad",
                      !.sync_calls = @ \cup {[track |-> mix.i, target |-> tgt,
                                              silence |-> tgt - cur]}]
    /\ UNCHANGED <<sessionVars, sink, serverVars, download_tokens>>

\* communicate() of the padding returns
SyncPadded(ok) ==
    /\ mix.pc = "pad"
    /\ ok => mix.dir             \* ffmpeg reads and writes in recording_<id>
    /\ mix' = IF ok THEN SyncFrom([mix EXCEPT !.sync_done = @ \cup {mix.i}],
                                  mix.i + 1)
              ELSE Fail(mix, "ProcessFailed")
    /\ UNCHANGED <<sessionVars, sink, serverVars, download_tokens>>

\* the launch of _mix_audio_files and its communicate(): on exit 0 the size of
\* the output is read, the directory is removed and the run returns; otherwise
\* the exception goes to the handler at line 88, and what ffmpeg has written
\* to the output path stays
MixExited(o, left) ==
    /\ mix.pc = "mix"
    /\ o = "ok" => mix.dir       \* the inputs are in recording_<id>
    /\ mix' = IF o = "ok"
              THEN [mix EXCEPT !.pc = "done", !.out = "ok", !.output = "whole",
                               !.dir = FALSE, !.rm = Append(@, "success")]
              ELSE Fail([mix EXCEPT !.output = IF o = "ToolMissing" THEN "none"
                                               ELSE left], o)
    /\ UNCHANGED <<sessionVars, sink, serverVars, download_tokens>>

NextT ==
    \/ MixBegin
    \/ \E o \in NormalizeLaunches : NormalizeLaunched(o)
    \/ \E ok \in BOOLEAN : NormalizeExited(ok)
    \/ \E okp \in BOOLEAN, found \in BOOLEAN : SyncProbed(okp, found)
    \/ \E ok \in BOOLEAN : SyncPadded(ok)
    \/ \E o \in Exits, left \in Leftovers : MixExited(o, left)

SpecT == InitM /\ [][NextT]_vars

\* ------------------------------------------------------ capture sink
\* One RecordingSink from its creation to the end of its callback.  A capture
\* file is "none" (the user has sent nothing), "empty" (0 bytes), "data", or
\* "missing" (in sink.user_files, no longer on disk).
SinkUsers == {1, 2, 3}      \* members of the recorded channel

\* RecordingSink.__init__
NewSink == [NoSink EXCEPT !.pc = "capturing"]

\* sink.write(data, user): the first call for a user opens the user's file,
\* every call appends data (n bytes, possibly none)
SinkWrite(u, n) ==
    /\ sink.pc = "capturing"
    /\ sink.files[u] # "missing"
    /\ sink' = [sink EXCEPT
           !.files[u] = IF n > 0 THEN "data"
                        ELSE IF @ = "none" THEN "empty" ELSE @,
           !.order = IF sink.files[u] = "none" THEN Append(@, u) ELSE @]
    /\ UNCHANGED <<sessionVars, mix, serverVars, download_tokens>>

\* the file of user u, which lies in the system's temporary directory, is
\* removed from outside the program
FileVanishes(u) ==
    /\ sink.pc = "capturing"
    /\ sink.files[u] \in {"empty", "data"}
    /\ sink' = [sink EXCEPT !.files[u] = "missing"]
    /\ UNCHANGED <<sessionVars, mix, serverVars, download_tokens>>

\* RecordingSink.cleanup from position k of sink.user_files: os.path.getsize
\* raises on a missing file, a file with content goes into the result and an
\* empty one is removed
RECURSIVE Cleanup(_, _, _)
Cleanup(k, files, acc) ==
    IF k > Len(sink.order) THEN
        [raised |-> FALSE, user_audio_files |-> acc, files |-> files]
    ELSE LET u == sink.order[k] IN
         IF files[u] = "missing" THEN
             [raised |-> TRUE, user_audio_files |-> {}, files |-> files]
         ELSE IF files[u] = "data" THEN Cleanup(k + 1, files, acc \cup {u})
         ELSE Cleanup(k + 1, [files EXCEPT ![u] = "none"], acc)

\* recording_finished(sink, channel, recording_id) while the session is in
\* bot.active_recordings: the result of sink.cleanup() is stored in the
\* session; an exception is logged and nothing is stored
RecordingFinished ==
    /\ sink.pc = "capturing"
    /\ LET r == Cleanup(1, sink.files, {}) IN
       sink' = [sink EXCEPT !.pc = "done", !.files = r.files,
                            !.stored = IF r.raised THEN @
                                       ELSE [present |-> TRUE,
                                             user_audio_files |-> r.user_audio_files],
                            !.out = IF r.raised THEN "raised" ELSE "stored"]
    /\ UNCHANGED <<sessionVars, mix, serverVars, download_tokens>>

InitK == Start /\ mix = NoRun /\ sink = NewSink /\ ServerStart

NextK ==
    \/ \E u \in SinkUsers, n \in {0, 1} : SinkWrite(u, n)
    \/ \E u \in SinkUsers : FileVanishes(u)
    \/ RecordingFinished

SpecK == InitK /\ [][NextK]_vars

\* ------------------------------------------------------- file server
\* FileServer: generate_download_token, GET /download/{token} and
\* cleanup_expired_tokens.  None of them awaits, so each is one step.
MaxTime == 3                \* the clock runs from 0 to MaxTime
MaxServed == 2              \* requests per token that are answered with a file
Hours == {1, 2}             \* expires_hours
Requesters == {1}           \* user_id of a token

\* A path is absolute or relative and has a sequence of names; a name is a
\* sequence of characters.  The process runs in /, the recordings directory
\* is r there (storage.recordings_path is './recordings' unless configured
\* otherwise), and /rx is a directory beside it whose name begins with the
\* name of the recordings directory.
R == <<"r">>
RX == <<"r", "x">>
A == <<"a">>
B == <<"b">>
X == <<"x">>
UP == <<".", ".">>

\* os.getcwd(), as the names of an absolute path
Cwd == <<>>

\* self.recordings_path
recordings_path == [abs |-> FALSE, names |-> <<R>>]

\* the file_path values a token is bound to
FilePaths ==
    {[abs |-> FALSE, names |-> <<R, A>>],        \* r/a
     [abs |-> FALSE, names |-> <<A>>],           \* a
     [abs |-> TRUE, names |-> <<R, A>>],         \* /r/a
     [abs |-> FALSE, names |-> <<B>>],           \* b, not on disk
     [abs |-> FALSE, names |-> <<UP, X>>],       \* ../x
     [abs |-> FALSE, names |-> <<UP, RX, A>>],   \* ../rx/a
     [abs |-> TRUE, names |-> <<RX, A>>]}        \* /rx/a

\* the files on disk, by their resolved names
Disk == {<<R, A>>, <<RX, A>>, <<X>>}

\* Path.__truediv__ with a relative right-hand side
Join(p, q) == [abs |-> p.abs, names |-> p.names \o q.names]

\* Path.resolve(): a relative path starts in the working directory, a ".."
\* takes the last name away, and the parent of / is /
RECURSIVE Normalize(_, _)
Normalize(names, acc) ==
    IF names = <<>> THEN acc
    ELSE IF Head(names) = UP
    THEN Normalize(Tail(names),
                   IF acc = <<>> THEN acc ELSE SubSeq(acc, 1, Len(acc) - 1))
    ELSE Normalize(Tail(names), Append(acc, Head(names)))

Resolve(p) ==
    [abs |-> TRUE,
     names |-> Normalize(IF p.abs THEN p.names ELSE Cwd \o p.names, <<>>)]

\* str() of an absolute path: the characters of its names, each after a "/"
RECURSIVE Str(_)
Str(names) ==
    IF names = <<>> THEN <<>>
    ELSE <<"/">> \o Head(names) \o Str(Tail(names))

\* str.startswith
StartsWith(str, prefix) ==
    /\ Len(prefix) <= Len(str)
    /\ SubSeq(str, 1, Len(prefix)) = prefix

\* the mutation of Expired for a handler that never looks at the clock
ExpiredNever(info) == FALSE

\* `datetime.utcnow() > token_info['expires_at']`
Expired(info) == utcnow > info.expires_at

\* the mutation of Purgeable that takes the token that expires now as well
PurgeableNow(info) == info.expires_at <= utcnow

\* `info['expires_at'] < now`
Purgeable(info) == info.expires_at < utcnow

\* HTTPException(status_code=404, detail="File not found")
NotFound == [status |-> 404, detail |-> "File not found", path |-> NULL]

\* FileResponse(path=str(file_path), ...)
FileResponse(names) == [status |-> 200, detail |-> "none", path |-> names]

\* lines 53-74: the bound path is made absolute under the recordings
\* directory, resolved, tested against the directory and for existence
Serve(info) ==
    LET p == IF info.file_path.abs THEN info.file_path
             ELSE Join(recordings_path, info.file_path)
        q == Resolve(p)
    IN
    IF ~StartsWith(Str(q.names), Str(Resolve(recordings_path).names))
    THEN NotFound
    ELSE IF q.names \notin Disk THEN NotFound
    ELSE FileResponse(q.names)

\* `self.active_tokens[token] = {...}`
TokenSet(tok, info) ==
    [k \in DOMAIN active_tokens \cup {tok} |->
        IF k = tok THEN info ELSE active_tokens[k]]

\* `del self.active_tokens[token]` for every token of gone
TokenDel(gone) == [k \in DOMAIN active_tokens \ gone |-> active_tokens[k]]

\* time passes
Tick ==
    /\ utcnow < MaxTime
    /\ utcnow' = utcnow + 1
    /\ UNCHANGED <<sessionVars, mix, sink, download_tokens, active_tokens, issued, response,
                   served, trace>>

\* the mutation of Fresh for a source that repeats its values
FreshOrNot(tok) == TRUE

\* token_urlsafe(32) returns 256 random bits, taken here to be a value it has
\* not returned before
Fresh(tok) == tok \notin issued

\* generate_download_token
GenerateDownloadToken(tok, rid, path, uid, hours) ==
    /\ Fresh(tok)
    /\ issued' = issued \cup {tok}
    /\ active_tokens' = TokenSet(tok,
           [recording_id |-> rid, file_path |-> path, user_id |-> uid,
            expires_at |-> utcnow + hours, created_at |-> utcnow])
    /\ trace' = [NoTrace EXCEPT !.op = "generate", !.token = tok]
    /\ UNCHANGED <<sessionVars, mix, sink, download_tokens, utcnow, response, served>>

\* GET /download/{token}.  Every HTTPException raised inside the `try` is
\* caught at line 76 and raised again as the same 404.
DownloadFile(tok) ==
    /\ IF tok \notin DOMAIN active_tokens THEN
           /\ response' = NotFound
           /\ trace' = [NoTrace EXCEPT !.op = "download", !.token = tok]
           /\ UNCHANGED <<active_tokens, served>>
       ELSE IF Expired(active_tokens[tok]) THEN
           /\ active_tokens' = TokenDel({tok})
           /\ response' = NotFound
           /\ trace' = [NoTrace EXCEPT !.op = "download", !.token = tok,
                                       !.evicted = TRUE]
           /\ UNCHANGED served
       ELSE
           /\ response' = Serve(active_tokens[tok])
           /\ trace' = [NoTrace EXCEPT !.op = "download", !.token = tok]
           /\ IF response'.status = 200 THEN
                  /\ served[tok] < MaxServed
                  /\ served' = [served EXCEPT ![tok] = @ + 1]
              ELSE UNCHANGED served
           /\ UNCHANGED active_tokens
    /\ UNCHANGED <<sessionVars, mix, sink, download_tokens, utcnow, issued>>

\* the tokens cleanup_expired_tokens collects
ExpiredTokens ==
    {tok \in DOMAIN active_tokens : Purgeable(active_tokens[tok])}

\* FileServer.cleanup_expired_tokens
CleanupExpiredTokens ==
    /\ active_tokens' = TokenDel(ExpiredTokens)
    /\ trace' = [NoTrace EXCEPT !.op = "cleanup",
                                !.count = Cardinality(ExpiredTokens)]
    /\ UNCHANGED <<sessionVars, mix, sink, download_tokens, utcnow, issued, response, served>>

NextF ==
    \/ Tick
    \/ \E tok \in Tokens, rid \in RecordingIds, path \in FilePaths,
          uid \in Requesters, hours \in Hours :
           GenerateDownloadToken(tok, rid, path, uid, hours)
    \/ \E tok \in Tokens : DownloadFile(tok)
    \/ CleanupExpiredTokens

SpecF == Init /\ [][NextF]_vars

\* -------------------------------------------------------- cleanup_task
\* cleanup_temp_files: rmtree of self.temp_dir with everything below it
CleanupTempFiles(m) == [m EXCEPT !.parent = FALSE, !.dir = FALSE]

\* one iteration of the loop started in setup_hook: the expired rows of
\* download_tokens are deleted, then the expired entries of active_tokens,
\* then the temporary directory
CleanupTask ==
    /\ download_tokens' = {d \in download_tokens : ~(d.expires_at < utcnow)}
    /\ active_tokens' = TokenDel(ExpiredTokens)
    /\ trace' = [NoTrace EXCEPT !.op = "cleanup",
                                !.count = Cardinality(ExpiredTokens)]
    /\ mix' = CleanupTempFiles(mix)
    /\ UNCHANGED <<sessionVars, sink, utcnow, issued, response, served>>

NextU == NextT \/ CleanupTask

\* a run of the pipeline while cleanup_task runs every hour
SpecU == InitM /\ [][NextU]_vars

\* ------------------------------------------------------------ /download
RequestedIds == 1..3        \* the recording_id argument of /download
DownloadUsers == {1, 2}     \* users who run /download: the starter, another

\* the tables `recordings` the command can meet: row i was inserted by a
\* /join in guild i, and is as its INSERT left it or as finish_recording
\* left it
RowTables ==
    LET Shapes == UNION {[1..n -> Initiators \X BOOLEAN] : n \in 0..2}
    IN  {[i \in DOMAIN f |->
             IF f[i][2] THEN FinishRow(InsertRow(i, f[i][1]), i, 1)
             ELSE InsertRow(i, f[i][1])] : f \in Shapes}

\* the variables /download leaves alone
downloadFrame == <<active, order, sess, lastRowid, gvc, pipeRuns, finishWrites,
                   failNotes, mix, sink, utcnow, response, served>>

\* the mutation of CanDownload that lets every requester through
CanDownloadAnyone(g, u, rec) == TRUE

\* the permission check of /download, passed
CanDownload(g, u, rec) == ~(rec.guild # g /\ rec.started_by # u)

\* the mutation of TokenPath that binds no path
TokenPathNone(rec_path) == NULL

\* `file_path=recording['file_path']`
TokenPath(rec_path) == rec_path

\* /download up to the return of get_recording, and the checks made on the
\* row it returned
DownloadLookup(g, u, rid) ==
    LET t == [NewTask("download", g, u) EXCEPT !.rid = rid] IN
    /\ IF rid \notin 1..Len(rows) THEN
           Spawn(Done(t, "RecordingNotFound"))
       ELSE IF ~CanDownload(g, u, rows[rid]) THEN
           Spawn(Done(t, "Forbidden"))
       ELSE IF rows[rid].status # "completed" THEN
           Spawn(Done(t, "NotReady"))
       ELSE IF rows[rid].file_path = NULL THEN
           Spawn(Done(t, "FileNotFound"))
       ELSE Spawn([t EXCEPT !.pc = "dl_found", !.row = rows[rid].file_path])
    /\ UNCHANGED <<rows, active_tokens, issued, trace, download_tokens,
                   downloadFrame>>

\* os.path.exists on the row's path, then generate_download_token, up to the
\* call of create_download_token
DownloadIssue(t, exists, tok) ==
    /\ t \in BagToSet(tasks)
    /\ t.pc = "dl_found"
    /\ IF ~exists THEN
           /\ Resume(t, Done(t, "FileNotFound"))
           /\ UNCHANGED <<active_tokens, issued, trace>>
       ELSE
           /\ Fresh(tok)
           /\ issued' = issued \cup {tok}
           /\ active_tokens' = TokenSet(tok,
                  [recording_id |-> t.rid, file_path |-> TokenPath(t.row),
                   user_id |-> t.u, expires_at |-> utcnow + 1,
                   created_at |-> utcnow])
           /\ trace' = [NoTrace EXCEPT !.op = "generate", !.token = tok]
           /\ Resume(t, [t EXCEPT !.pc = "dl_store", !.token = tok])
    /\ UNCHANGED <<rows, download_tokens, downloadFrame>>

\* create_download_token returns or raises, then the reply
DownloadStored(t, ok) ==
    /\ t \in BagToSet(tasks)
    /\ t.pc = "dl_store"
    /\ IF ok THEN
           /\ download_tokens' = download_tokens \cup
                  {[token |-> t.token, recording_id |-> t.rid,
                    user_id |-> t.u, expires_at |-> utcnow + 1]}
           /\ Resume(t, Done(t, "Link"))
       ELSE
           /\ UNCHANGED download_tokens
           /\ Resume(t, Done(t, "Failed"))
    /\ UNCHANGED <<rows, active_tokens, issued, trace, downloadFrame>>

\* finish_recording, called by a stop, completes a row
RowFinished(i) ==
    /\ i \in 1..Len(rows)
    /\ rows[i].status = "recording"
    /\ rows' = [rows EXCEPT ![i] = FinishRow(@, i, 1)]
    /\ UNCHANGED <<tasks, last, active_tokens, issued, trace, download_tokens,
                   downloadFrame>>

InitD ==
    /\ active = [g \in Guilds |-> NULL]
    /\ order = <<>>
    /\ sess = <<>>
    /\ rows \in RowTables
    /\ lastRowid = NULL
    /\ gvc = [g \in Guilds |-> FALSE]
    /\ tasks = EmptyBag
    /\ last = NoOp
    /\ pipeRuns = [i \in RecordingIds |-> 0]
    /\ finishWrites = [i \in RecordingIds |-> 0]
    /\ failNotes = {}
    /\ mix = NoRun
    /\ sink = NoSink
    /\ ServerStart

NextD ==
    \/ \E g \in Guilds, u \in DownloadUsers, rid \in RequestedIds :
           DownloadLookup(g, u, rid)
    \/ \E t \in BagToSet(tasks), exists \in BOOLEAN, tok \in Tokens :
           DownloadIssue(t, exists, tok)
    \/ \E t \in BagToSet(tasks), ok \in BOOLEAN : DownloadStored(t, ok)
    \/ \E i \in RecordingIds : RowFinished(i)

SpecD == InitD /\ [][NextD]_vars

\* ================================================================ claims
\* the variables other than `last`: everything the program itself holds
state == <<active, order, sess, rows, lastRowid, gvc, tasks, pipeRuns,
           finishWrites, failNotes>>

\* the /join coroutines of guild g that are past the AlreadyRecording test
JoinsInFlight(g) == {t \in BagToSet(tasks) : t.kind = "join" /\ t.g = g}

\* C1: in every guild at most one start is past the AlreadyRecording test or
\* live at any instant: the rows inserted by the guild's /join coroutines in
\* flight and by its live session are at most one row.
C1_OneStartPerGuild ==
    \A g \in Guilds :
        Cardinality({t.row : t \in JoinsInFlight(g)}
                    \cup (IF active[g] # NULL THEN {sess[active[g]].row} ELSE {})) <= 1

\* C2: a live session holds the id of the row its own /join inserted, and two
\* distinct live sessions never hold the same recording id.
C2_SessionHoldsOwnRow ==
    /\ \A g \in Guilds : active[g] # NULL => sess[active[g]].rid = sess[active[g]].row
    /\ \A g1, g2 \in Guilds :
           (g1 # g2 /\ active[g1] # NULL /\ active[g2] # NULL)
               => sess[active[g1]].rid # sess[active[g2]].rid

\* C3: a stop ends without the mixdown pipeline ("no audio files") only for a
\* session whose capture produced no non-empty track.
C3_TracksAwaited ==
    (last.op \in {"stop", "force"} /\ last.out = "NoTracks") => last.cap = {}

\* C4: when stop_recording returns for a session, by whatever outcome, that
\* session is not in bot.active_recordings.
C4_StoppedSessionEvicted ==
    (last.op \in {"stop", "force"} /\ last.s # NULL)
        => \A g \in Guilds : active[g] # last.s

\* C4 (case): a stop whose pipeline raised has just returned
C4_Witness ==
    /\ last.op \in {"stop", "force"}
    /\ last.s # NULL
    /\ last.out = "PipeFailed"

\* C5: when a stop whose pipeline raised returns, the row of its recording id
\* has status failed.
C5_FailureMarkedFailed ==
    (last.op \in {"stop", "force"} /\ last.out = "PipeFailed")
        => rows[last.rid].status = "failed"

\* C6: a row of the recordings table has a file path, a file size or a
\* duration exactly when its status is completed, and then it has all three.
C6_FieldsIffCompleted ==
    \A i \in 1..Len(rows) :
        /\ (rows[i].file_path # NULL \/ rows[i].file_size # NULL \/ rows[i].duration # NULL)
               <=> rows[i].status = "completed"
        /\ rows[i].status = "completed"
               => (rows[i].file_path # NULL /\ rows[i].file_size # NULL /\ rows[i].duration # NULL)

\* C6 (case): one recording was completed and another one's pipeline failed
C6_Witness ==
    \E i, j \in 1..Len(rows) :
        /\ rows[i].status = "completed"
        /\ rows[i].file_path # NULL
        /\ j \in failNotes
        /\ rows[j].status = "recording"

\* C7: no two start or stop coroutines of one guild are at the same time
\* between their first read of the guild's entry and their last write to it.
C7_Serialized ==
    \A t1, t2 \in BagToSet(tasks) :
        t1.g = t2.g => (t1 = t2 /\ CopiesIn(t1, tasks) = 1)

\* C8: the mixdown pipeline runs at most once for a recording id and the
\* completion fields of a row are written at most once.
C8_MixdownOnce ==
    \A i \in RecordingIds : pipeRuns[i] <= 1 /\ finishWrites[i] <= 1

\* C9: a /stop by a user who is neither the initiator of the guild's live
\* session nor a moderator returns Forbidden and changes nothing: the session
\* table, the session, the capture, the rows and the coroutines stay as they
\* were and no pipeline runs.
C9_ForbiddenChangesNothing ==
    [][\A g \in Guilds, u \in Users :
          (/\ StopCheck(g, u)
           /\ active[g] # NULL
           /\ u # sess[active[g]].started_by
           /\ u \notin Moderators)
          => (last'.out = "Forbidden" /\ UNCHANGED state)]_vars

\* C9 (case): a /stop was just refused while the session is live and capturing
C9_Witness ==
    /\ last.op = "stop"
    /\ last.out = "Forbidden"
    /\ active[last.g] # NULL
    /\ sess[active[last.g]].vcRec
    /\ pipeRuns = [i \in RecordingIds |-> 0]

\* C10: a /join in a guild that has a live session returns AlreadyRecording
\* and changes nothing: no row is inserted, no voice client is registered,
\* and the session table and the session stay as they were.
C10_AlreadyRecordingChangesNothing ==
    [][\A g \in Guilds, u \in Initiators :
          (JoinCheck(g, u) /\ active[g] # NULL)
          => (last'.out = "AlreadyRecording" /\ UNCHANGED state)]_vars

\* C10 (case): a /join was just refused in a guild whose session is live
C10_Witness ==
    /\ last.op = "join"
    /\ last.out = "AlreadyRecording"
    /\ active[last.g] # NULL
    /\ Len(rows) = 1

\* C11: a /stop in a guild with no live session returns NotRecording and
\* changes nothing (session table, sessions, capture, rows, coroutines,
\* pipeline runs); stop_recording itself, entered for a guild with no live
\* session, returns without touching the table, a session or a row.
C11_NotRecordingChangesNothing ==
    [][/\ \A g \in Guilds, u \in Users :
              (StopCheck(g, u) /\ active[g] = NULL)
              => (last'.out = "NotRecording" /\ UNCHANGED state)
       /\ \A t \in BagToSet(tasks), cap \in TrackChoices :
              (StopCall(t, cap) /\ active[t.g] = NULL)
              => (/\ last'.out = "NotLive"
                  /\ UNCHANGED <<active, order, sess, rows, lastRowid, gvc,
                                 pipeRuns, finishWrites, failNotes>>)]_vars

\* C11 (case): a /stop was just refused in a guild whose earlier session has
\* ended, its row still in the table
C11_Witness ==
    /\ last.op = "stop"
    /\ last.out = "NotRecording"
    /\ active[last.g] = NULL
    /\ \E i \in 1..Len(rows) : rows[i].guild = last.g

\* C12: a stop forced by the bot's voice disconnect, for a session whose
\* capture ended with at least one non-empty track and whose disconnect did
\* not raise, runs the mixdown pipeline before it returns (and then ends
\* completed or with a pipeline failure), as a /stop does.
C12_ForceStopMixesDown ==
    (last.op = "force" /\ last.s # NULL /\ last.out # "Raised" /\ last.cap # {})
        => last.out \in {"Completed", "PipeFailed"}

\* C13: once the stop of a session has begun (its capture has ended), a
\* membership event in its guild leaves the session's participant list as it
\* was.
C13_ParticipantsFrozen ==
    [][\A g \in Guilds, p \in ParticipantLists :
          (UpdateParticipants(g, p) /\ ~sess[active[g]].vcRec)
          => UNCHANGED sess]_vars

\* C14: when the stop processing of a session has ended (stop_recording has
\* returned and no other stop of that session is in flight) and the row of its
\* recording id is not completed, the "Recording Error" notification for that
\* recording id has been sent.
C14_FailureNotified ==
    (/\ last.op \in {"stop", "force"}
     /\ last.s # NULL
     /\ \A t \in BagToSet(tasks) : t.s # last.s
     /\ rows[last.rid].status # "completed")
        => last.rid \in failNotes

\* C15: a shutdown that has begun completes, even when the mixdown pipeline of
\* a session it is stopping never returns.
C15_ShutdownCompletes == Closing ~> Closed

\* the next step of the suspended coroutine t, other than the return of a
\* mixdown pipeline
StepOutsidePipeline(t) ==
    \/ JoinRowid(t)
    \/ \E ok \in BOOLEAN : JoinConnect(t, ok)
    \/ \E cap \in TrackChoices : StopCall(t, cap)
    \/ \E ok \in BOOLEAN : StopDisconnected(t, ok)
    \/ \E ok \in BOOLEAN : StopNotified(t, ok)

\* C16: while the stop of one guild waits for its mixdown pipeline, every
\* start or stop in flight for another guild that is not itself waiting for a
\* pipeline can take its next step.
C16_StuckPipelineStallsNoOtherGuild ==
    \A t1, t2 \in BagToSet(tasks) :
        (t1.pc = "st_pipe" /\ t2.g # t1.g /\ t2.pc # "st_pipe")
            => ENABLED StepOutsidePipeline(t2)

\* C16 (case): the stop of one guild has just returned completed while the
\* stop of another guild is still waiting for its pipeline
C16_Witness ==
    /\ last.op \in {"stop", "force"}
    /\ last.out = "Completed"
    /\ \E t \in BagToSet(tasks) : t.pc = "st_pipe" /\ t.g # last.g

\* a step of a start, a stop, a participant update or a capture-finished
\* callback that belongs to guild a
OwnedStep(a) ==
    \/ \E u \in Initiators : JoinCheck(a, u)
    \/ \E u \in Users : StopCheck(a, u)
    \/ \E cap \in TrackChoices : ForceStop(a, cap)
    \/ \E p \in ParticipantLists : UpdateParticipants(a, p)
    \/ \E t \in BagToSet(tasks) :
           /\ t.g = a
           /\ (StepOutsidePipeline(t) \/ \E ok \in BOOLEAN : StopPipeDone(t, ok))
    \/ \E s \in 1..Len(sess) : sess[s].guild = a /\ Callback(s)

\* the step leaves guild b's entry of bot.active_recordings as it was:
\* the same session with the same recording id, participants and track set
EntryKept(b) ==
    /\ active'[b] = active[b]
    /\ active[b] # NULL =>
           /\ sess'[active[b]].rid = sess[active[b]].rid
           /\ sess'[active[b]].parts = sess[active[b]].parts
           /\ sess'[active[b]].hasFiles = sess[active[b]].hasFiles
           /\ sess'[active[b]].files = sess[active[b]].files

\* the step leaves the rows of guild b as they were
RowsKept(b) ==
    \A i \in 1..Len(rows) : rows[i].guild = b => rows'[i] = rows[i]

\* C17: a step that belongs to guild a leaves the live-session entry and the
\* rows of every other guild unchanged.
C17_GuildsIndependent ==
    [][\A a \in Guilds :
          OwnedStep(a) => \A b \in Guilds \ {a} : EntryKept(b) /\ RowsKept(b)]_vars

\* the tracks of the run that are on disk and that ffprobe can read
Survivors == {j \in 1..Len(mix.tracks) : mix.tracks[j].exists /\ mix.tracks[j].probe}

\* the longest duration among the surviving tracks
TargetDuration ==
    CHOOSE d \in Durations :
        /\ \E j \in Survivors : mix.tracks[j].dur = d
        /\ \A j \in Survivors : mix.tracks[j].dur <= d

\* C18: only surviving tracks are normalized and counted for the target
\* duration, and a run all of whose tracks are skipped ends in NoValidTracks.
C18_UnusableTracksSkipped ==
    /\ \A j \in mix.norm_calls \cup mix.counted : j \in Survivors
    /\ (mix.pc = "done" /\ Survivors = {}) => mix.out = "NoValidTracks"

\* C19: a run over a non-empty set of surviving tracks synchronizes, and every
\* synchronization call it makes has the longest surviving duration as its
\* target.
C19_TargetIsMaxDuration ==
    (mix.pc = "done" /\ Survivors # {})
        => /\ mix.sync_calls # {}
           /\ \A c \in mix.sync_calls : c.target = TargetDuration

\* C20: when a run has ended, every surviving track shorter than the target
\* was padded with silence of exactly the target minus its duration, and every
\* other surviving track was synchronized without padding.
C20_PadsToLongest ==
    (mix.pc = "done" /\ Survivors # {})
        => \A j \in Survivors :
               \E c \in mix.sync_calls :
                   /\ c.track = j
                   /\ c.silence = IF mix.tracks[j].dur < TargetDuration
                                  THEN TargetDuration - mix.tracks[j].dur
                                  ELSE 0

OnDisk == {j \in 1..Len(mix.tracks) : mix.tracks[j].exists}

\* C22: once a synchronization has begun every file on disk has been
\* normalized and no normalization is under way, and once the mix or
\* transcode has been launched every normalized file has been synchronized
\* and no synchronization is under way.
C22_StagesOrdered ==
    /\ (mix.sync_calls # {} \/ mix.pc \in {"sync_probe", "pad"})
           => /\ mix.norm_done = OnDisk
              /\ mix.norm_calls = mix.norm_done
              /\ mix.pc \notin {"probe", "normalize"}
    /\ mix.mix_calls # {}
           => /\ mix.sync_done = mix.norm_done
              /\ mix.norm_done = OnDisk
              /\ mix.pc \in {"mix", "done"}

\* C22 (case): the mix of three tracks is under way, one of them padded
C22_Witness ==
    /\ mix.pc = "mix"
    /\ Cardinality(mix.sync_done) = 3
    /\ \E c \in mix.sync_calls : c.silence > 0

\* C23: when a run has ended, by return or by exception, the directory
\* recording_<id> does not exist and the run has removed it once; no run
\* removes it a second time.
C23_TempDirRemovedOnce ==
    /\ Len(mix.rm) <= 1
    /\ mix.pc = "done" => (~mix.dir /\ Len(mix.rm) = 1)

\* C23 (case): a run has ended at the launch of ffmpeg, after the probe of
\* its file had failed too, as it does when the tools are not installed
C23_Witness ==
    /\ mix.pc = "done"
    /\ mix.out \in {"ToolMissing", "TypeError"}
    /\ "probe" \in mix.absorbed
    /\ mix.rm = <<"failure">>
    /\ ~mix.dir

TypedOutcomes == {"NoValidTracks", "ToolMissing", "Timeout", "ProcessFailed"}

\* C25: a run ends in a return or in one of the typed errors, and a run in
\* which a subprocess invocation failed does not return.
C25_FailuresTyped ==
    mix.pc = "done"
        => /\ mix.out \in TypedOutcomes \cup {"ok"}
           /\ mix.absorbed # {} => mix.out # "ok"

\* the users whose capture file has content
NonEmpty == {u \in SinkUsers : sink.files[u] = "data"}

\* C26: when the callback of a capture has ended, the track set stored for
\* the mixdown is exactly the set of users whose capture file is non-empty;
\* missing and empty files are left out and the set is stored all the same.
C26_BadFilesDropped ==
    sink.pc = "done"
        => /\ sink.stored.present
           /\ sink.stored.user_audio_files = NonEmpty

\* the resolved path is the recordings directory or lies below it
InsideRoot(names) ==
    LET root == Resolve(recordings_path).names IN
    /\ Len(names) >= Len(root)
    /\ SubSeq(names, 1, Len(root)) = root

\* C27: every file a download request is answered with lies inside the
\* recordings directory, whatever path the token was bound to.
C27_ServedInsideRoot ==
    response.status = 200 => InsideRoot(response.path)

\* where the bound path of a token leads
Target(info) ==
    Resolve(IF info.file_path.abs THEN info.file_path
            ELSE Join(recordings_path, info.file_path)).names

\* the token cannot be resolved: it is unknown, it is past its expiry, its
\* path leaves the recordings directory, or its file is not on disk
Unresolvable(tok) ==
    \/ tok \notin DOMAIN active_tokens
    \/ utcnow > active_tokens[tok].expires_at
    \/ ~InsideRoot(Target(active_tokens[tok]))
    \/ Target(active_tokens[tok]) \notin Disk

\* C28: a download request for a token that is unknown, expired, bound to a
\* path outside the recordings directory or bound to a missing file gets the
\* one not-found reply, whichever of the causes applies.
C28_FailuresIndistinguishable ==
    [][\A tok \in Tokens :
          (DownloadFile(tok) /\ Unresolvable(tok)) => response' = NotFound]_vars

\* C29: the expiry of a token is the time of its issue plus its lifetime and
\* never changes while the token is in the table; a download request after
\* the expiry is answered not-found and takes the token out of the table; a
\* token that has left the table never comes back, and a request for it is
\* answered not-found.
C29_NoResolveAfterExpiry ==
    [][\A tok \in Tokens :
          /\ (tok \in DOMAIN active_tokens /\ tok \in DOMAIN active_tokens')
                 => active_tokens'[tok].expires_at = active_tokens[tok].expires_at
          /\ (tok \notin DOMAIN active_tokens /\ tok \in DOMAIN active_tokens')
                 => /\ tok \notin issued
                    /\ \E h \in Hours : active_tokens'[tok].expires_at = utcnow + h
          /\ (/\ DownloadFile(tok)
              /\ tok \in DOMAIN active_tokens
              /\ utcnow > active_tokens[tok].expires_at)
                 => (response' = NotFound /\ tok \notin DOMAIN active_tokens')
          /\ (DownloadFile(tok) /\ tok \notin DOMAIN active_tokens)
                 => response' = NotFound]_vars

\* C29 (case): a request for an issued token has just been answered not-found
\* because the token was past its expiry, and the token has left the table
C29_Witness ==
    /\ trace.op = "download"
    /\ trace.evicted
    /\ response = NotFound
    /\ trace.token \in issued
    /\ trace.token \notin DOMAIN active_tokens

\* C30: cleanup_expired_tokens takes out of the table exactly the tokens whose
\* expiry is earlier than now, leaves every other token with its info as it
\* was, and returns the number of tokens it took out.
C30_PurgeExact ==
    [][CleanupExpiredTokens =>
          /\ DOMAIN active_tokens' =
                 {tok \in DOMAIN active_tokens :
                      ~(active_tokens[tok].expires_at < utcnow)}
          /\ \A tok \in DOMAIN active_tokens' :
                 active_tokens'[tok] = active_tokens[tok]
          /\ trace'.count =
                 Cardinality(DOMAIN active_tokens \ DOMAIN active_tokens')]_vars

\* C30 (case): a cleanup has just removed one token and kept another one
\* that expires at this very moment
C30_Witness ==
    /\ trace.op = "cleanup"
    /\ trace.count = 1
    /\ \E tok \in DOMAIN active_tokens : active_tokens[tok].expires_at = utcnow

\* C31: no token is answered with its file more than once.
C31_SingleUse == \A tok \in Tokens : served[tok] <= 1

\* the file a bound path names where the token is issued, in the working
\* directory of the process
Bound(info) == Resolve(info.file_path).names

\* C33: a download request for a token in the table, not past its expiry,
\* whose bound path names a file on disk inside the recordings directory, is
\* answered with exactly that file.
C33_IssueResolveRoundTrip ==
    [][\A tok \in Tokens :
          (/\ DownloadFile(tok)
           /\ tok \in DOMAIN active_tokens
           /\ utcnow <= active_tokens[tok].expires_at
           /\ InsideRoot(Bound(active_tokens[tok]))
           /\ Bound(active_tokens[tok]) \in Disk)
          => response' = FileResponse(Bound(active_tokens[tok]))]_vars

\* C34: with a random source that does not repeat a value, a token is
\* generated under a value that is not in the table, and a token that stays
\* in the table keeps the recording, the path, the requester and the expiry
\* it was generated with.
C34_TokensNeverRebound ==
    [][/\ \A tok \in Tokens :
              (tok \in DOMAIN active_tokens /\ tok \in DOMAIN active_tokens')
                  => active_tokens'[tok] = active_tokens[tok]
       /\ \A tok \in Tokens, rid \in RecordingIds, path \in FilePaths,
             uid \in Requesters, hours \in Hours :
              GenerateDownloadToken(tok, rid, path, uid, hours)
                  => tok \notin DOMAIN active_tokens]_vars

\* C34 (case): a token has just been generated for one recording while a
\* token of another recording, generated earlier, is in the table
C34_Witness ==
    /\ trace.op = "generate"
    /\ \E t1, t2 \in DOMAIN active_tokens :
           /\ active_tokens[t1].recording_id # active_tokens[t2].recording_id
           /\ active_tokens[t1].created_at < active_tokens[t2].created_at

\* C32: every live token names a row of `recordings` whose status is
\* completed, and is bound to that row's file_path.
C32_TokensOfCompletedRows ==
    \A tok \in DOMAIN active_tokens :
        LET i == active_tokens[tok].recording_id IN
        /\ i \in 1..Len(rows)
        /\ rows[i].status = "completed"
        /\ active_tokens[tok].file_path = rows[i].file_path

C32_Witness ==
    /\ last.op = "download"
    /\ last.out = "Link"
    /\ \E tok \in DOMAIN active_tokens :
           /\ active_tokens[tok].recording_id = last.rid
           /\ \E d \in download_tokens : d.token = tok
    /\ \E i \in 1..Len(rows) : rows[i].status = "recording"

\* C36: a token is generated only for a requester of the recording's guild or
\* the user who started it; a request for an unknown recording, or one that
\* fails this check, returns without a token and changes neither
\* active_tokens nor download_tokens.
C36_RefusedRequestsIssueNothing ==
    [][/\ \A g \in Guilds, u \in DownloadUsers, rid \in RequestedIds :
              (/\ DownloadLookup(g, u, rid)
               /\ \/ rid \notin 1..Len(rows)
                  \/ (rows[rid].guild # g /\ rows[rid].started_by # u))
              => /\ last'.op = "download"
                 /\ last'.out \in {"RecordingNotFound", "Forbidden"}
                 /\ UNCHANGED <<active_tokens, download_tokens, issued, tasks>>
       /\ \A t \in BagToSet(tasks), tok \in Tokens :
              DownloadIssue(t, TRUE, tok)
              => (rows[t.rid].guild = t.g \/ rows[t.rid].started_by = t.u)]_vars

C36_Witness ==
    /\ last.op = "download"
    /\ last.out = "Forbidden"
    /\ \E tok \in DOMAIN active_tokens :
           /\ active_tokens[tok].recording_id = last.rid
           /\ \E d \in download_tokens : d.token = tok

\* the pipeline run is between its mkdir and its return
InProgress == mix.pc \in {"probe", "normalize", "sync_probe", "pad", "mix"}

\* C37: while a pipeline run is in progress its directory recording_<id>
\* exists, and no run fails because a directory it needs is gone.
C37_CleanupSparesMixdown ==
    /\ InProgress => mix.dir
    /\ mix.out # "FileNotFoundError"

\* C38: a stop that returns while the guild's entry of active_recordings is
\* a session other than the one it was stopping leaves that entry in place.
C38_StopEvictsOwnSession ==
    [][\A t \in BagToSet(tasks), ok \in BOOLEAN :
          (/\ StopDisconnected(t, ok) \/ StopNotified(t, ok)
           /\ active[t.g] # NULL
           /\ active[t.g] # t.s)
          => active'[t.g] = active[t.g]]_vars

\* a /join or a stop of guild g is suspended
Busy(g) == \E t \in BagToSet(tasks) : t.g = g

\* C39: while no /join and no stop of a guild is in progress, every row of
\* the guild with status 'recording' is the row of the session stored for
\* the guild in active_recordings.
C39_NoOrphanedRecordingRows ==
    \A g \in Guilds :
        ~Busy(g) =>
            \A i \in 1..Len(rows) :
                (rows[i].guild = g /\ rows[i].status = "recording")
                    => (active[g] # NULL /\ sess[active[g]].row = i)

====
